---- MODULE Spec2Model ----
(***************************************************************************)
(* Model of extras/mmu3.py: the MMU3 filament-transport state machine.     *)
(*                                                                         *)
(* Every method of class MMU3 is an operator from a machine record to the  *)
(* SET of machine records it can return with: the presence sensors and the *)
(* hotend thermometer are read from the outside world, so each read has    *)
(* every possible result.  A record carries the object's fields, the       *)
(* enabled flags of the two runout sensors, and the bookkeeping of the     *)
(* command being run (return value, raised exception, number of calls made *)
(* to every actuator, last sensor readings).                               *)
(* An uncaught Python exception ends the command where it is raised; the   *)
(* object keeps the fields it had at that point.                           *)
(***************************************************************************)
EXTENDS Integers, Sequences, FiniteSets, TLC

\* ---------------------------------------------------------------- bounds
NumberOfTools == 2
FindaLoadRetry == 2
FindaUnloadRetry == 2
LoadRetry == 2
UnloadRetry == 2

\* ------------------------------------------------------ program constants
MinTempExtruder == 180
ExtruderEjectTemp == 200
IdlerHomePosition == 85

\* Python's None, for current_tool, current_filament, extruder_temp and a
\* missing VALUE parameter.  Tool ids are integers, None is no tool id.
None == -9

\* Temperatures the thermometer can report: one below min_temp_extruder, one
\* above extruder_eject_temp.
Temps == {MinTempExtruder - 10, ExtruderEjectTemp + 10}
\* The readings pause() can store in extruder_temp.  The field is written by
\* pause() and read nowhere, so one reading stands for all of them.
PauseTemps == {ExtruderEjectTemp + 10}

\* Tool ids a command can be given: missing, negative, valid, too large.
ToolIds == 0 .. (NumberOfTools - 1)
ToolArgs == {None, -1} \cup (0 .. NumberOfTools)

\* Per-tool position tables (selector positions in micrometres).
idler_positions == [i \in ToolIds |-> 5 + 15 * i]
selector_positions == [i \in ToolIds |-> 73500 - 14125 * i]

\* ------------------------------------------------------------ the record
\* MMU3.__init__: the state variables, and a command's bookkeeping cleared.
NewMachine(no_selector) ==
    [ is_paused |-> FALSE, is_homed |-> FALSE, extruder_temp |-> None,
      current_tool |-> None, current_filament |-> None,
      enable_no_selector_mode |-> no_selector,
      switch_enabled |-> TRUE, motion_enabled |-> TRUE,
      ret |-> FALSE, exc |-> FALSE,
      idler_moves |-> 0, selector_moves |-> 0, pulley_moves |-> 0,
      extruder_moves |-> 0,
      idler_aux |-> 0, selector_aux |-> 0, pulley_aux |-> 0,
      pauses |-> 0, heat |-> 0, ramming |-> 0, tmc |-> 0,
      finda |-> "unread", ext |-> "unread", finda_hits |-> 0,
      first_temp |-> None, paused_by |-> {}, log |-> <<>>,
      homing |-> <<>>, late_correction |-> FALSE, heater_target |-> None,
      after_pause |-> FALSE ]

\* The object's fields and the sensors' flags: what outlives a command.
Fields(m) ==
    [ is_paused |-> m.is_paused, is_homed |-> m.is_homed,
      extruder_temp |-> m.extruder_temp,
      current_tool |-> m.current_tool,
      current_filament |-> m.current_filament,
      switch_enabled |-> m.switch_enabled,
      motion_enabled |-> m.motion_enabled ]

\* gcmd_grabber: a command starts with nothing returned, raised or moved.
Fresh(m) ==
    [ m EXCEPT !.ret = FALSE, !.exc = FALSE,
               !.idler_moves = 0, !.selector_moves = 0, !.pulley_moves = 0,
               !.extruder_moves = 0,
               !.idler_aux = 0, !.selector_aux = 0, !.pulley_aux = 0,
               !.pauses = 0, !.heat = 0, !.ramming = 0, !.tmc = 0,
               !.finda = "unread", !.ext = "unread", !.finda_hits = 0,
               !.first_temp = None, !.paused_by = {}, !.log = <<>>,
               !.homing = <<>>, !.late_correction = FALSE,
               !.heater_target = None, !.after_pause = FALSE ]

\* return v
Ret(m, v) == [m EXCEPT !.ret = v]

\* An uncaught Python exception: the call and all its callers are abandoned.
Raise(m) == [m EXCEPT !.exc = TRUE, !.ret = FALSE]

\* A step of a composite operation has returned: log keeps the steps run by
\* load_tool, load_filament_to_extruder and cut_filament, with what each
\* returned (for a block of statements: the value returned last before it).
Log(S, stage) ==
    {IF s.exc THEN s ELSE [s EXCEPT !.log = Append(@, <<stage, s.ret>>)]
        : s \in S}

\* Statement sequencing: F runs on every outcome of S that did not raise.
Bind(S, F(_)) == UNION {IF s.exc THEN {s} ELSE F(s) : s \in S}

\* "if not self.op(): return False": F runs only where op returned True.
IfOk(S, F(_)) == UNION {IF s.exc \/ ~s.ret THEN {s} ELSE F(s) : s \in S}

\* ------------------------------------------------------------- actuators
idler_do_move(m) == [m EXCEPT !.idler_moves = @ + 1]
idler_do_set_position(m) == [m EXCEPT !.idler_aux = @ + 1]
selector_do_move(m) == [m EXCEPT !.selector_moves = @ + 1]
selector_do_homing_move(m) == [m EXCEPT !.selector_moves = @ + 1]
selector_do_set_position(m) == [m EXCEPT !.selector_aux = @ + 1]
pulley_do_move(m) == [m EXCEPT !.pulley_moves = @ + 1]
pulley_do_homing_move(m) == [m EXCEPT !.pulley_moves = @ + 1]
pulley_do_set_position(m) == [m EXCEPT !.pulley_aux = @ + 1]
\* run_script_from_command of a script with G1 E.. moves
extruder_script(m) == [m EXCEPT !.extruder_moves = @ + 1]
\* M109 / M104
heater_script(m) == [m EXCEPT !.heat = @ + 1]
\* M109 S<target> and M104 S<target>: heater_target keeps the target that the
\* command has set last
M109(m, target) == [heater_script(m) EXCEPT !.heater_target = target]
M104(m, target) == [heater_script(m) EXCEPT !.heater_target = target]
\* Python's max of two numbers
max(a, b) == IF a >= b THEN a ELSE b
\* SET_TMC_FIELD / SET_TMC_CURRENT
tmc_script(m) == [m EXCEPT !.tmc = @ + 1]

\* disable_steppers(stepper): dwell, do_enable(False), dwell
disable_idler(m) == [m EXCEPT !.idler_aux = @ + 3]
disable_selector(m) == [m EXCEPT !.selector_aux = @ + 3]
disable_pulley(m) == [m EXCEPT !.pulley_aux = @ + 3]
\* disable_steppers(): pulley, selector, idler
disable_steppers(m) == disable_idler(disable_selector(disable_pulley(m)))

\* --------------------------------------------------------------- sensors
\* is_filament_in_finda: the reading is kept in m.finda, and finda_hits counts
\* the readings that reported filament
ReadFinda(m) ==
    { [m EXCEPT !.finda = "absent"],
      [m EXCEPT !.finda = "present", !.finda_hits = @ + 1] }
\* is_filament_present_in_extruder: the reading is kept in m.ext
ReadExt(m) == {[m EXCEPT !.ext = r] : r \in {"present", "absent"}}

\* extruder_heater.get_temp(print_time)[0] read as t by a test against
\* min_temp_extruder: first_temp keeps the first such reading of the command
GuardTemp(m, t) == [m EXCEPT !.first_temp = IF @ = None THEN t ELSE @]

\* ----------------------------------------------------------------- pause
pause(m) ==
    {[m EXCEPT !.extruder_temp = t, !.is_paused = TRUE, !.pauses = @ + 1]
        : t \in PauseTemps}

\* self.pause() called by a sensor validation helper ("sensor"), on the
\* exhaustion of a sensor-zone loop ("loop") or by the hotend validation
\* ("hotend"): paused_by keeps the callers of the command's pauses
PauseBy(m, why) == {[p EXCEPT !.paused_by = @ \cup {why}] : p \in pause(m)}

\* A validation helper is entered, or a sensor-zone loop is exhausted:
\* after_pause tells that this happened after a pause() of the same command.
Reached(m) == [m EXCEPT !.after_pause = @ \/ m.pauses > 0]

\* Faulty variant of resume: it lifts the pause as unlock does.
resume_lifting_pause(m) == {[m EXCEPT !.is_paused = FALSE]}

resume(m) == {m}

\* ---------------------------------------------------- validation helpers
validate_filament_in_extruder(m) ==
    Bind(ReadExt(Reached(m)), LAMBDA s :
        IF s.ext # "present"
        THEN {Ret(p, FALSE) : p \in PauseBy(s, "sensor")}
        ELSE {Ret(s, TRUE)})

validate_filament_not_stuck_in_extruder(m) ==
    Bind(ReadExt(Reached(m)), LAMBDA s :
        IF s.ext = "present"
        THEN {Ret(p, FALSE) : p \in PauseBy(s, "sensor")}
        ELSE {Ret(s, TRUE)})

\* Faulty variant of validate_filament_is_in_finda: the test is inverted.
validate_filament_is_in_finda_inverted(m) ==
    Bind(ReadFinda(m), LAMBDA s :
        IF s.finda = "present"
        THEN {Ret(p, FALSE) : p \in PauseBy(s, "sensor")}
        ELSE {Ret(s, TRUE)})

validate_filament_is_in_finda(m) ==
    Bind(ReadFinda(Reached(m)), LAMBDA s :
        IF s.finda # "present"
        THEN {Ret(p, FALSE) : p \in PauseBy(s, "sensor")}
        ELSE {Ret(s, TRUE)})

validate_filament_not_stuck_in_finda(m) ==
    Bind(ReadFinda(Reached(m)), LAMBDA s :
        IF s.finda = "present"
        THEN {Ret(p, FALSE) : p \in PauseBy(s, "sensor")}
        ELSE {Ret(s, TRUE)})

\* Faulty variant of validate_hotend_is_hot_enough: a cold hotend is reported
\* without pause().
validate_hotend_is_hot_enough_quietly(m) ==
    UNION {IF t < MinTempExtruder
           THEN {Ret(GuardTemp(m, t), FALSE)}
           ELSE {Ret(GuardTemp(m, t), TRUE)} : t \in Temps}

validate_hotend_is_hot_enough(m) ==
    UNION {IF t < MinTempExtruder
           THEN {Ret(p, FALSE)
                    : p \in PauseBy(GuardTemp(Reached(m), t), "hotend")}
           ELSE {Ret(GuardTemp(Reached(m), t), TRUE)} : t \in Temps}

\* ---------------------------------------------------------------- homing
\* homing keeps the calls of the homing code, in order, as
\* <<stepper, call, position>>
Did(m, stepper, call, position) ==
    [m EXCEPT !.homing = Append(@, <<stepper, call, position>>)]

home_idler(m) ==
    LET a == Did(idler_do_set_position(m), "idler", "set_position", 0)
        b == Did(idler_do_move(a), "idler", "move", 7)
        c == Did(idler_do_move(b), "idler", "move", -95)
        d == Did(idler_do_set_position(c), "idler", "set_position", 2)
        e == Did(idler_do_move(d), "idler", "move", IdlerHomePosition)
    IN  {Did(disable_idler(e), "idler", "disable", 0)}

\* if not self.enable_no_selector_mode: the selector homing of home_mmu_only
home_selector(m) ==
    LET a == Did(selector_do_set_position(m), "selector", "set_position", 0)
        b == Did(selector_do_homing_move(a), "selector", "homing_move", -76)
        c == Did(selector_do_set_position(b), "selector", "set_position", 0)
    IN  Did(disable_selector(c), "selector", "disable", 0)

\* Faulty variant of unlock: every stepper is released after the idler homing.
unlock_releasing_all(m) ==
    {disable_steppers(s) : s \in home_idler([m EXCEPT !.is_paused = FALSE])}

unlock(m) == home_idler([m EXCEPT !.is_paused = FALSE])

\* --------------------------------------------------------- tool selector
\* Faulty variant of select_tool: an id beyond the position tables is stored
\* as any other.
select_tool_storing_any_id(m, tool_id) ==
    IF m.is_paused THEN {Ret(m, FALSE)}
    ELSE IF ~m.is_homed THEN {Ret(m, FALSE)}
    ELSE IF tool_id = None \/ tool_id < 0 THEN {Ret(m, FALSE)}
    ELSE LET a == idler_do_move(m)
             b == IF ~m.enable_no_selector_mode
                  THEN disable_selector(selector_do_move(a))
                  ELSE a
         IN  {Ret([b EXCEPT !.current_tool = tool_id], TRUE)}

select_tool(m, tool_id) ==
    IF m.is_paused THEN {Ret(m, FALSE)}
    ELSE IF ~m.is_homed THEN {Ret(m, FALSE)}
    ELSE IF tool_id = None \/ tool_id < 0 THEN {Ret(m, FALSE)}
    ELSE IF tool_id \notin DOMAIN idler_positions THEN {Raise(m)}
    ELSE LET a == idler_do_move(m)
             b == IF ~m.enable_no_selector_mode
                  THEN disable_selector(selector_do_move(a))
                  ELSE a
         IN  {Ret([b EXCEPT !.current_tool = tool_id], TRUE)}

\* Faulty variant of unselect_tool: the idler is parked, current_tool is kept.
unselect_tool_keeping_tool(m) ==
    IF m.is_paused THEN {Ret(m, FALSE)}
    ELSE IF ~m.is_homed THEN {Ret(m, FALSE)}
    ELSE {Ret(disable_idler(idler_do_move(m)), TRUE)}

unselect_tool(m) ==
    IF m.is_paused THEN {Ret(m, FALSE)}
    ELSE IF ~m.is_homed THEN {Ret(m, FALSE)}
    ELSE LET a == idler_do_move(m)
             b == [a EXCEPT !.current_tool = None]
         IN  {Ret(disable_idler(b), TRUE)}

\* --------------------------------------------------- sensor-zone loops
RECURSIVE load_loop(_, _)
\* the for loop of load_filament_to_finda_in_loop with i iterations left
load_loop(m, i) ==
    IF i = 0
    THEN {Ret(p, FALSE) : p \in PauseBy(Reached(m), "loop")}
    ELSE Bind(ReadFinda(pulley_do_homing_move(pulley_do_set_position(m))),
              LAMBDA s : IF s.finda = "present"
                         THEN {Ret(s, TRUE)}
                         ELSE load_loop(s, i - 1))

\* Faulty variant of load_filament_to_finda_in_loop: one iteration too many.
load_filament_to_finda_in_loop_once_more(m) == load_loop(m, FindaLoadRetry + 1)

\* Faulty variant of load_filament_to_finda_in_loop: the loop runs twice as
\* long as configured.
load_filament_to_finda_in_loop_twice(m) == load_loop(m, 2 * FindaLoadRetry)

load_filament_to_finda_in_loop(m) == load_loop(m, FindaLoadRetry)

RECURSIVE unload_loop(_, _)
\* the for loop of unload_filament_to_finda_in_loop with i iterations left
unload_loop(m, i) ==
    IF i = 0
    THEN {Ret(p, FALSE) : p \in PauseBy(Reached(m), "loop")}
    ELSE Bind(ReadFinda(pulley_do_homing_move(pulley_do_set_position(m))),
              LAMBDA s : IF s.finda # "present"
                         THEN {Ret(s, TRUE)}
                         ELSE unload_loop(s, i - 1))

\* Faulty variant of unload_filament_to_finda_in_loop: one move too many.
unload_filament_to_finda_in_loop_once_more(m) ==
    unload_loop(m, FindaUnloadRetry + 1)

unload_filament_to_finda_in_loop(m) == unload_loop(m, FindaUnloadRetry)

\* ------------------------------------------------------- extruder stages
retry_load_filament_in_extruder(m) ==
    Bind(ReadExt(m), LAMBDA s :
        IF s.ext = "present" THEN {Ret(s, TRUE)}
        ELSE IF s.is_paused THEN {Ret(s, FALSE)}
        ELSE UNION {
            IF t < MinTempExtruder THEN {Ret(GuardTemp(s, t), FALSE)}
            ELSE Bind(select_tool(GuardTemp(s, t), s.current_filament),
                      LAMBDA a :
                 Bind({extruder_script(disable_pulley(pulley_do_set_position(
                        pulley_do_move(pulley_do_set_position(a)))))},
                      LAMBDA b :
                 Bind(unselect_tool(b), LAMBDA c :
                      {Ret(extruder_script(c), TRUE)})))
            : t \in Temps})

\* A call of a correction loop has returned s from m.  late_correction tells
\* that a call pushed or retracted after an earlier call of the same loop had
\* found the sensor already reading as wanted (settled).
Corrected(m, s, settled) ==
    [s EXCEPT !.late_correction =
        @ \/ (settled /\ \/ s.pulley_moves > m.pulley_moves
                          \/ s.extruder_moves > m.extruder_moves)]

RECURSIVE retry_load_loop(_, _, _)
\* for _ in range(self.load_retry): self.retry_load_filament_in_extruder()
retry_load_loop(m, i, settled) ==
    IF i = 0 THEN {m}
    ELSE Bind(retry_load_filament_in_extruder(m), LAMBDA s :
            retry_load_loop(Corrected(m, s, settled), i - 1,
                            settled \/ s.ext = "present"))

\* Faulty variant of load_filament_in_extruder: one correction too many.
load_filament_in_extruder_once_more(m) ==
    IF m.is_paused THEN {Ret(m, FALSE)}
    ELSE IfOk(validate_hotend_is_hot_enough(m), LAMBDA h :
         Bind({extruder_script(disable_pulley(pulley_do_set_position(
                pulley_do_move(pulley_do_set_position(h)))))},
              LAMBDA a :
         Bind(unselect_tool(a), LAMBDA b :
         Bind(ReadExt(extruder_script(b)), LAMBDA c :
         Bind(IF c.ext # "present"
              THEN retry_load_loop(c, LoadRetry + 1, FALSE) ELSE {c},
              LAMBDA d : validate_filament_in_extruder(d))))))

load_filament_in_extruder(m) ==
    IF m.is_paused THEN {Ret(m, FALSE)}
    ELSE IfOk(validate_hotend_is_hot_enough(m), LAMBDA h :
         Bind({extruder_script(disable_pulley(pulley_do_set_position(
                pulley_do_move(pulley_do_set_position(h)))))},
              LAMBDA a :
         Bind(unselect_tool(a), LAMBDA b :
         Bind(ReadExt(extruder_script(b)), LAMBDA c :
         Bind(IF c.ext # "present"
              THEN retry_load_loop(c, LoadRetry, FALSE) ELSE {c},
              LAMBDA d : validate_filament_in_extruder(d))))))

\* Faulty variant of retry_unload_filament_in_extruder: the test of the hotend
\* temperature does not stop the retraction.
retry_unload_filament_in_extruder_cold(m) ==
    Bind(ReadExt(m), LAMBDA s :
        IF s.ext # "present" THEN {Ret(s, TRUE)}
        ELSE IF s.is_paused THEN {Ret(s, FALSE)}
        ELSE {Ret(extruder_script(GuardTemp(s, t)), TRUE) : t \in Temps})

retry_unload_filament_in_extruder(m) ==
    Bind(ReadExt(m), LAMBDA s :
        IF s.ext # "present" THEN {Ret(s, TRUE)}
        ELSE IF s.is_paused THEN {Ret(s, FALSE)}
        ELSE UNION {
            IF t < MinTempExtruder THEN {Ret(GuardTemp(s, t), FALSE)}
            ELSE {Ret(extruder_script(GuardTemp(s, t)), TRUE)}
            : t \in Temps})

RECURSIVE retry_unload_loop(_, _, _)
\* for _ in range(self.unload_retry): self.retry_unload_filament_in_extruder()
retry_unload_loop(m, i, settled) ==
    IF i = 0 THEN {m}
    ELSE Bind(retry_unload_filament_in_extruder(m), LAMBDA s :
            retry_unload_loop(Corrected(m, s, settled), i - 1,
                              settled \/ s.ext # "present"))

\* Faulty variant of unload_filament_in_extruder: one correction too many.
unload_filament_in_extruder_once_more(m) ==
    IF m.is_paused THEN {Ret(m, FALSE)}
    ELSE IfOk(validate_hotend_is_hot_enough(m), LAMBDA h :
         Bind(ReadExt(h), LAMBDA e :
            IF e.ext # "present" THEN {Ret(e, TRUE)}
            ELSE
            Bind(IF e.current_tool # None THEN unselect_tool(e) ELSE {e},
                 LAMBDA a :
            Bind(ReadExt(extruder_script(a)), LAMBDA b :
            Bind(IF b.ext = "present"
                 THEN retry_unload_loop(b, UnloadRetry + 1, FALSE) ELSE {b},
                 LAMBDA c : validate_filament_not_stuck_in_extruder(c))))))

unload_filament_in_extruder(m) ==
    IF m.is_paused THEN {Ret(m, FALSE)}
    ELSE IfOk(validate_hotend_is_hot_enough(m), LAMBDA h :
         Bind(ReadExt(h), LAMBDA e :
            IF e.ext # "present" THEN {Ret(e, TRUE)}
            ELSE
            Bind(IF e.current_tool # None THEN unselect_tool(e) ELSE {e},
                 LAMBDA a :
            Bind(ReadExt(extruder_script(a)), LAMBDA b :
            Bind(IF b.ext = "present"
                 THEN retry_unload_loop(b, UnloadRetry, FALSE) ELSE {b},
                 LAMBDA c : validate_filament_not_stuck_in_extruder(c))))))

\* ramming_slicer: the RAMMING_SLICER macro
ramming_slicer(m) == {[m EXCEPT !.ramming = @ + 1]}

unload_filament_in_extruder_with_ramming(m) ==
    IF m.is_paused THEN {Ret(m, FALSE)}
    ELSE IfOk(validate_hotend_is_hot_enough(m), LAMBDA h :
         Bind(IF h.current_tool # None THEN unselect_tool(h) ELSE {h},
              LAMBDA a :
         Bind(ramming_slicer(a), LAMBDA b :
         IfOk(unload_filament_in_extruder(b), LAMBDA c : {Ret(c, TRUE)}))))

\* --------------------------------------------------------- load pipeline
\* Faulty variant of load_filament_to_finda: the test of current_tool is
\* missing.
load_filament_to_finda_without_tool_test(m) ==
    IF m.is_paused THEN {Ret(m, FALSE)}
    ELSE IfOk(load_filament_to_finda_in_loop(m), LAMBDA a :
         IfOk(validate_filament_is_in_finda(
                disable_pulley(pulley_do_set_position(a))),
              LAMBDA b :
                {Ret([b EXCEPT !.current_filament = b.current_tool], TRUE)}))

load_filament_to_finda(m) ==
    IF m.is_paused THEN {Ret(m, FALSE)}
    ELSE IF m.current_tool = None THEN {Ret(m, FALSE)}
    ELSE IfOk(load_filament_to_finda_in_loop(m), LAMBDA a :
         IfOk(validate_filament_is_in_finda(
                disable_pulley(pulley_do_set_position(a))),
              LAMBDA b :
                {Ret([b EXCEPT !.current_filament = b.current_tool], TRUE)}))

\* Faulty variant of load_filament_from_finda_to_extruder: it pauses when no
\* tool is selected.
load_filament_from_finda_to_extruder_pausing(m) ==
    IF m.is_paused THEN {Ret(m, FALSE)}
    ELSE IF m.current_tool = None THEN {Ret(p, FALSE) : p \in pause(m)}
    ELSE {Ret(disable_pulley(pulley_do_move(pulley_do_set_position(
            pulley_do_move(pulley_do_set_position(m))))), TRUE)}

load_filament_from_finda_to_extruder(m) ==
    IF m.is_paused THEN {Ret(m, FALSE)}
    ELSE IF m.current_tool = None THEN {Ret(m, FALSE)}
    ELSE {Ret(disable_pulley(pulley_do_move(pulley_do_set_position(
            pulley_do_move(pulley_do_set_position(m))))), TRUE)}

load_filament_to_extruder(m) ==
    IF m.is_paused THEN {Ret(m, FALSE)}
    ELSE IF m.current_tool = None THEN {Ret(m, FALSE)}
    ELSE IfOk(IF m.enable_no_selector_mode = FALSE
              THEN Log(load_filament_to_finda(m), "load_filament_to_finda")
              ELSE {Ret(m, TRUE)},
              LAMBDA a :
         Bind(Log(load_filament_from_finda_to_extruder(a),
                  "load_filament_from_finda_to_extruder"),
              LAMBDA b : IF b.ret THEN {Ret(b, TRUE)} ELSE {Ret(b, FALSE)}))

\* ------------------------------------------------------- unload pipeline
\* "if self.current_tool is None": select the current filament's tool, or
\* refuse when there is none.  ret = TRUE means the caller goes on.
auto_select_tool(m) ==
    IF m.current_tool = None
    THEN IF m.current_filament # None
         THEN Bind(select_tool(m, m.current_filament),
                   LAMBDA s : {Ret(s, TRUE)})
         ELSE {Ret(m, FALSE)}
    ELSE {Ret(m, TRUE)}

\* Faulty variant of unload_filament_from_finda: current_filament is not
\* cleared after the sensor zone was found empty.
unload_filament_from_finda_keeping_filament(m) ==
    IF m.is_paused THEN {Ret(m, FALSE)}
    ELSE IfOk(auto_select_tool(m), LAMBDA a :
         IfOk(validate_filament_not_stuck_in_finda(
                disable_pulley(pulley_do_set_position(
                    pulley_do_move(pulley_do_set_position(a))))),
              LAMBDA b : {Ret(b, TRUE)}))

unload_filament_from_finda(m) ==
    IF m.is_paused THEN {Ret(m, FALSE)}
    ELSE IfOk(auto_select_tool(m), LAMBDA a :
         IfOk(validate_filament_not_stuck_in_finda(
                disable_pulley(pulley_do_set_position(
                    pulley_do_move(pulley_do_set_position(a))))),
              LAMBDA b : {Ret([b EXCEPT !.current_filament = None], TRUE)}))

unload_filament_from_extruder_to_finda(m) ==
    IF m.is_paused THEN {Ret(m, FALSE)}
    ELSE IfOk(auto_select_tool(m), LAMBDA a :
         IF ~a.enable_no_selector_mode
         THEN Bind(ReadFinda(pulley_do_homing_move(pulley_do_set_position(a))),
                   LAMBDA b :
              IfOk(IF b.finda = "present"
                   THEN unload_filament_to_finda_in_loop(b)
                   ELSE {Ret(b, TRUE)},
                   LAMBDA c :
              IfOk(validate_filament_not_stuck_in_finda(c), LAMBDA d :
                   {Ret(disable_pulley(d), TRUE)})))
         ELSE {Ret(disable_pulley(pulley_do_move(pulley_do_set_position(a))),
                   TRUE)})

unload_filament_from_extruder(m) ==
    IF m.is_paused THEN {Ret(m, FALSE)}
    ELSE IfOk(auto_select_tool(m), LAMBDA a :
         IfOk(unload_filament_from_extruder_to_finda(a), LAMBDA b :
              IF b.enable_no_selector_mode THEN {Ret(b, TRUE)}
              ELSE IfOk(unload_filament_from_finda(b),
                        LAMBDA c : {Ret(c, TRUE)})))

\* ----------------------------------------------------- tool load / unload
\* Faulty variant of load_tool: the result of load_filament_to_extruder is
\* ignored.
load_tool_pressing_on(m, tool_id) ==
    IF m.is_paused THEN {Ret(m, FALSE)}
    ELSE IfOk(Log(select_tool(m, tool_id), "select_tool"), LAMBDA a :
         Bind(load_filament_to_extruder(a), LAMBDA b :
              Log(load_filament_in_extruder(b), "load_filament_in_extruder")))

load_tool(m, tool_id) ==
    IF m.is_paused THEN {Ret(m, FALSE)}
    ELSE IfOk(Log(select_tool(m, tool_id), "select_tool"), LAMBDA a :
         IfOk(load_filament_to_extruder(a), LAMBDA b :
              Log(load_filament_in_extruder(b), "load_filament_in_extruder")))

\* Faulty variant of unload_tool: current_filament is not re-derived from
\* current_tool.
unload_tool_without_heuristic(m) ==
    IF m.is_paused THEN {Ret(m, FALSE)}
    ELSE IF m.current_filament = None
    THEN Bind(ReadFinda(m), LAMBDA f :
            IF f.finda = "present"
            THEN IF f.current_tool = None
                 THEN {Ret(f, FALSE)}
                 ELSE {Ret(f, TRUE)}
            ELSE {Ret(f, TRUE)})
    ELSE IfOk(unload_filament_in_extruder(m), LAMBDA a :
         IfOk(select_tool(a, a.current_filament), LAMBDA b :
              unload_filament_from_extruder(b)))

unload_tool(m) ==
    IF m.is_paused THEN {Ret(m, FALSE)}
    ELSE IF m.current_filament = None
    THEN Bind(ReadFinda(m), LAMBDA f :
            IF f.finda = "present"
            THEN IF f.current_tool = None
                 THEN {Ret(f, FALSE)}
                 ELSE {Ret([f EXCEPT !.current_filament = f.current_tool],
                           TRUE)}
            ELSE {Ret(f, TRUE)})
    ELSE IfOk(unload_filament_in_extruder(m), LAMBDA a :
         IfOk(select_tool(a, a.current_filament), LAMBDA b :
              unload_filament_from_extruder(b)))

\* ------------------------------------------------------- eject sequencer
eject_ramming(m) ==
    IF m.is_paused THEN {Ret(m, FALSE)}
    ELSE IF m.current_filament = None THEN {Ret(m, FALSE)}
    ELSE IfOk(unload_filament_in_extruder_with_ramming(m), LAMBDA a :
         Bind(select_tool(a, a.current_filament), LAMBDA b :
              unload_filament_from_extruder(b)))

\* Faulty variant of eject_from_extruder: the hotend is held at the
\* temperature it has.
eject_from_extruder_without_preheat(m) ==
    IF m.is_paused THEN {Ret(m, FALSE)}
    ELSE Bind(ReadExt(m), LAMBDA e :
            IF e.ext # "present" THEN {Ret(e, TRUE)}
            ELSE UNION {
                IfOk(unload_filament_in_extruder_with_ramming(M109(e, t)),
                     LAMBDA a : {Ret(M104(a, 0), TRUE)})
                : t \in Temps})

eject_from_extruder(m) ==
    IF m.is_paused THEN {Ret(m, FALSE)}
    ELSE Bind(ReadExt(m), LAMBDA e :
            IF e.ext # "present" THEN {Ret(e, TRUE)}
            ELSE UNION {
                \* min_temp = max(get_temp(print_time)[0], extruder_eject_temp)
                IfOk(unload_filament_in_extruder_with_ramming(
                        M109(e, max(t, ExtruderEjectTemp))),
                     LAMBDA a : {Ret(M104(a, 0), TRUE)})
                : t \in Temps})

\* Faulty variant of eject_before_home: the result of eject_from_extruder is
\* ignored and the extruder is not validated after it.
eject_before_home_trusting_eject(m) ==
    Bind(ReadExt(m), LAMBDA e :
    Bind(IF e.ext = "present" THEN eject_from_extruder(e) ELSE {e},
         LAMBDA b :
            IF ~b.enable_no_selector_mode
            THEN Bind(ReadFinda(b), LAMBDA f :
                    IF f.finda = "present"
                    THEN IfOk(unload_filament_from_extruder(f), LAMBDA c :
                         IfOk(validate_filament_not_stuck_in_finda(c),
                              LAMBDA d : {Ret(d, TRUE)}))
                    ELSE {Ret(f, TRUE)})
            ELSE {Ret(b, TRUE)}))

\* Faulty variant of eject_before_home: the result of eject_from_extruder is
\* ignored.
eject_before_home_pressing_on(m) ==
    Bind(ReadExt(m), LAMBDA e :
    IfOk(IF e.ext = "present"
         THEN Bind(eject_from_extruder(e),
                   LAMBDA a : validate_filament_not_stuck_in_extruder(a))
         ELSE {Ret(e, TRUE)},
         LAMBDA b :
            IF ~b.enable_no_selector_mode
            THEN Bind(ReadFinda(b), LAMBDA f :
                    IF f.finda = "present"
                    THEN IfOk(unload_filament_from_extruder(f), LAMBDA c :
                         IfOk(validate_filament_not_stuck_in_finda(c),
                              LAMBDA d : {Ret(d, TRUE)}))
                    ELSE {Ret(f, TRUE)})
            ELSE {Ret(b, TRUE)}))

eject_before_home(m) ==
    Bind(ReadExt(m), LAMBDA e :
    IfOk(IF e.ext = "present"
         THEN IfOk(eject_from_extruder(e),
                   LAMBDA a : validate_filament_not_stuck_in_extruder(a))
         ELSE {Ret(e, TRUE)},
         LAMBDA b :
            IF ~b.enable_no_selector_mode
            THEN Bind(ReadFinda(b), LAMBDA f :
                    IF f.finda = "present"
                    THEN IfOk(unload_filament_from_extruder(f), LAMBDA c :
                         IfOk(validate_filament_not_stuck_in_finda(c),
                              LAMBDA d : {Ret(d, TRUE)}))
                    ELSE {Ret(f, TRUE)})
            ELSE {Ret(b, TRUE)}))

\* ------------------------------------------------------ homing sequencer
\* Faulty variant of home_mmu_only: the selector is homed before the idler.
home_mmu_only_selector_first(m) ==
    IF m.is_paused THEN {Ret(m, FALSE)}
    ELSE Bind({IF ~m.enable_no_selector_mode THEN home_selector(m) ELSE m},
              LAMBDA i :
         Bind(home_idler(i), LAMBDA a :
         Bind(select_tool(disable_idler([a EXCEPT !.current_tool = None,
                                                  !.current_filament = None]),
                          0),
              LAMBDA b :
         Bind(unselect_tool(b), LAMBDA c :
              {Ret(disable_steppers([c EXCEPT !.is_homed = TRUE]), TRUE)}))))

home_mmu_only(m) ==
    IF m.is_paused THEN {Ret(m, FALSE)}
    ELSE Bind(home_idler(m), LAMBDA i :
         Bind({IF ~i.enable_no_selector_mode THEN home_selector(i) ELSE i},
              LAMBDA a :
         Bind(select_tool(disable_idler([a EXCEPT !.current_tool = None,
                                                  !.current_filament = None]),
                          0),
              LAMBDA b :
         Bind(unselect_tool(b), LAMBDA c :
              {Ret(disable_steppers([c EXCEPT !.is_homed = TRUE]), TRUE)}))))

home_mmu(m) ==
    \* saved: filament_switch_sensor_state is not None (it is then True)
    LET saved == m.switch_enabled
        a == [m EXCEPT !.switch_enabled = IF saved THEN FALSE ELSE @,
                       !.is_homed = TRUE]
    IN  IfOk(eject_before_home(a), LAMBDA b :
        Bind(home_mmu_only(b), LAMBDA c :
             {IF saved THEN [c EXCEPT !.switch_enabled = TRUE] ELSE c}))

\* --------------------------------------------------------- cut sequencer
\* Faulty variant of cut_filament: the test of no_selector_mode is missing.
cut_filament_in_any_mode(m, tool_id) ==
    IF m.is_paused THEN {Ret(m, FALSE)}
    ELSE IfOk(Log(unload_tool(m), "unload_tool"), LAMBDA a :
         IfOk(Log(select_tool(a, tool_id), "select_tool"), LAMBDA b :
         IfOk(Log(load_filament_to_finda(b), "load_filament_to_finda"),
              LAMBDA c :
         IfOk(Log(unload_filament_from_finda(c), "unload_filament_from_finda"),
              LAMBDA d :
         IF tool_id \notin DOMAIN idler_positions THEN {Raise(d)}
         ELSE
         Bind(Log({pulley_do_move(pulley_do_set_position(
                    tmc_script(selector_do_move(tmc_script(
                        pulley_do_move(pulley_do_set_position(
                            selector_do_move(idler_do_move(d)))))))))},
                  "cut"),
              LAMBDA e :
         Bind(Log(home_mmu(e), "home_mmu"), LAMBDA f : {Ret(f, TRUE)}))))))

\* Faulty variant of cut_filament: the result of unload_filament_from_finda
\* is ignored.
cut_filament_pressing_on(m, tool_id) ==
    IF m.is_paused THEN {Ret(m, FALSE)}
    ELSE IF m.enable_no_selector_mode THEN {Ret(m, FALSE)}
    ELSE IfOk(Log(unload_tool(m), "unload_tool"), LAMBDA a :
         IfOk(Log(select_tool(a, tool_id), "select_tool"), LAMBDA b :
         IfOk(Log(load_filament_to_finda(b), "load_filament_to_finda"),
              LAMBDA c :
         Bind(Log(unload_filament_from_finda(c), "unload_filament_from_finda"),
              LAMBDA d :
         IF tool_id \notin DOMAIN idler_positions THEN {Raise(d)}
         ELSE
         Bind(Log({pulley_do_move(pulley_do_set_position(
                    tmc_script(selector_do_move(tmc_script(
                        pulley_do_move(pulley_do_set_position(
                            selector_do_move(idler_do_move(d)))))))))},
                  "cut"),
              LAMBDA e :
         Bind(Log(home_mmu(e), "home_mmu"), LAMBDA f : {Ret(f, TRUE)}))))))

\* The log keeps the four preparatory steps, the cut (blade positioning,
\* push, stall threshold and current, cutting move, pull back) and the homing.
cut_filament(m, tool_id) ==
    IF m.is_paused THEN {Ret(m, FALSE)}
    ELSE IF m.enable_no_selector_mode THEN {Ret(m, FALSE)}
    ELSE IfOk(Log(unload_tool(m), "unload_tool"), LAMBDA a :
         IfOk(Log(select_tool(a, tool_id), "select_tool"), LAMBDA b :
         IfOk(Log(load_filament_to_finda(b), "load_filament_to_finda"),
              LAMBDA c :
         IfOk(Log(unload_filament_from_finda(c), "unload_filament_from_finda"),
              LAMBDA d :
         IF tool_id \notin DOMAIN idler_positions THEN {Raise(d)}
         ELSE
         Bind(Log({pulley_do_move(pulley_do_set_position(
                    tmc_script(selector_do_move(tmc_script(
                        pulley_do_move(pulley_do_set_position(
                            selector_do_move(idler_do_move(d)))))))))},
                  "cut"),
              LAMBDA e :
         Bind(Log(home_mmu(e), "home_mmu"), LAMBDA f : {Ret(f, TRUE)}))))))

\* ----------------------------------------------------------- tool change
\* Faulty variant of cmd_tx_change: the exit after a failed load_tool does not
\* re-enable the sensors.
cmd_tx_change_forgetting(m, tool_id) ==
    LET switch_state == m.switch_enabled
        motion_state == m.motion_enabled
        a == [m EXCEPT !.switch_enabled = IF switch_state THEN FALSE ELSE @,
                       !.motion_enabled = IF motion_state THEN FALSE ELSE @]
        restore(x) ==
            [x EXCEPT !.switch_enabled = IF switch_state THEN TRUE ELSE @,
                      !.motion_enabled = IF motion_state THEN TRUE ELSE @]
    IN  Bind(unload_tool(a), LAMBDA u :
            IF ~u.ret THEN {restore(u)}
            ELSE Bind(load_tool(u, tool_id), LAMBDA l :
                    IF ~l.ret THEN {l} ELSE {restore(l)}))

\* cmd_tx past its first test: suppress the sensors, unload, load, restore.
\* The three exits restore the flags with the same statements.
\* Faulty variant of cmd_tx_change: the result of unload_tool is ignored.
cmd_tx_change_loading_anyway(m, tool_id) ==
    LET switch_state == m.switch_enabled
        motion_state == m.motion_enabled
        a == [m EXCEPT !.switch_enabled = IF switch_state THEN FALSE ELSE @,
                       !.motion_enabled = IF motion_state THEN FALSE ELSE @]
        restore(x) ==
            [x EXCEPT !.switch_enabled = IF switch_state THEN TRUE ELSE @,
                      !.motion_enabled = IF motion_state THEN TRUE ELSE @]
    IN  Bind(Log(unload_tool(a), "unload_tool"), LAMBDA u :
             Bind(load_tool(u, tool_id), LAMBDA l : {restore(l)}))

cmd_tx_change(m, tool_id) ==
    LET switch_state == m.switch_enabled
        motion_state == m.motion_enabled
        a == [m EXCEPT !.switch_enabled = IF switch_state THEN FALSE ELSE @,
                       !.motion_enabled = IF motion_state THEN FALSE ELSE @]
        restore(x) ==
            [x EXCEPT !.switch_enabled = IF switch_state THEN TRUE ELSE @,
                      !.motion_enabled = IF motion_state THEN TRUE ELSE @]
    IN  Bind(Log(unload_tool(a), "unload_tool"), LAMBDA u :
            IF ~u.ret THEN {restore(u)}
            ELSE Bind(load_tool(u, tool_id), LAMBDA l : {restore(l)}))

\* Faulty variant of cmd_tx: the test of current_filament is missing.
cmd_tx_without_test(m, tool_id) == cmd_tx_change(m, tool_id)

cmd_tx(m, tool_id) ==
    IF m.current_filament = tool_id THEN {m}
    ELSE cmd_tx_change(m, tool_id)

cmd_m702(m) ==
    Bind(unload_tool(m), LAMBDA a :
        IF ~a.enable_no_selector_mode
        THEN Bind(ReadFinda(a), LAMBDA f :
                IF f.finda # "present" THEN unselect_tool(f) ELSE {f})
        ELSE Bind(unselect_tool(a), LAMBDA b :
                {[b EXCEPT !.current_filament = None]}))

\* ================================================================ machine
VARIABLES
    mmu,    \* the MMU3 object, with the bookkeeping of the command just run
    cmd,    \* the command just run, "idle" between two commands
    arg,    \* its tool id (None when it takes none)
    pre,    \* Fields(mmu) as they were when that command started
    prev    \* the successful select / load it directly followed, if any

vars == <<mmu, cmd, arg, pre, prev>>

NoPrev == [cmd |-> "other", filament |-> None]

Init ==
    /\ mmu \in {NewMachine(b) : b \in BOOLEAN}
    /\ cmd = "idle"
    /\ arg = None
    /\ pre = Fields(mmu)
    /\ prev = NoPrev

\* One command: the dispatcher is idle, the handler runs to its end on the
\* current object.
Step(name, a, outcomes) ==
    /\ cmd = "idle"
    /\ \E out \in outcomes : mmu' = out
    /\ cmd' = name
    /\ arg' = a
    /\ pre' = Fields(mmu)
    /\ prev' = prev

\* The command that directly follows one that returned True: the handler runs
\* on the object as the first command left it.  prev remembers the first
\* command and the filament before it.
Follow(first, name, outcomes) ==
    /\ cmd = first
    /\ mmu.ret /\ ~mmu.exc
    /\ \E out \in outcomes : mmu' = out
    /\ cmd' = name
    /\ arg' = None
    /\ pre' = Fields(mmu)
    /\ prev' = [cmd |-> first, filament |-> pre.current_filament]

\* The dispatcher is ready for the next command: the object keeps its fields,
\* the finished command's bookkeeping is dropped.
Ready ==
    /\ cmd # "idle"
    /\ mmu' = Fresh(mmu)
    /\ cmd' = "idle"
    /\ arg' = None
    /\ pre' = Fields(mmu)
    /\ prev' = NoPrev

\* SET_FILAMENT_SENSOR (Klipper's own command): the operator enables or
\* disables a runout sensor between two commands.
SET_FILAMENT_SENSOR ==
    /\ cmd = "idle"
    /\ \E b \in BOOLEAN :
          \/ mmu' = [mmu EXCEPT !.switch_enabled = b]
          \/ mmu' = [mmu EXCEPT !.motion_enabled = b]
    /\ mmu' # mmu
    /\ pre' = Fields(mmu')
    /\ UNCHANGED <<cmd, arg, prev>>

HOME_IDLER == Step("home_idler", None, home_idler(Fresh(mmu)))
HOME_MMU == Step("home_mmu", None, home_mmu(Fresh(mmu)))
HOME_MMU_ONLY == Step("home_mmu_only", None, home_mmu_only(Fresh(mmu)))
PAUSE_MMU == Step("pause", None, pause(Fresh(mmu)))
RESUME_MMU == Step("resume", None, resume(Fresh(mmu)))
UNLOCK_MMU == Step("unlock", None, unlock(Fresh(mmu)))
Tx == \E t \in ToolIds : Step("cmd_tx", t, cmd_tx(Fresh(mmu), t))
Kx == \E t \in ToolIds : Step("cut_filament", t, cut_filament(Fresh(mmu), t))
LT == \E t \in ToolArgs : Step("load_tool", t, load_tool(Fresh(mmu), t))
UT == Step("unload_tool", None, unload_tool(Fresh(mmu)))
SELECT_TOOL ==
    \E t \in ToolArgs : Step("select_tool", t, select_tool(Fresh(mmu), t))
UNSELECT_TOOL == Step("unselect_tool", None, unselect_tool(Fresh(mmu)))
UNSELECT_AFTER_SELECT ==
    Follow("select_tool", "unselect_tool", unselect_tool(Fresh(mmu)))
LOAD_FILAMENT_TO_FINDA_IN_LOOP ==
    Step("load_filament_to_finda_in_loop", None,
         load_filament_to_finda_in_loop(Fresh(mmu)))
RETRY_LOAD_FILAMENT_IN_EXTRUDER ==
    Step("retry_load_filament_in_extruder", None,
         retry_load_filament_in_extruder(Fresh(mmu)))
LOAD_FILAMENT_IN_EXTRUDER ==
    Step("load_filament_in_extruder", None,
         load_filament_in_extruder(Fresh(mmu)))
RETRY_UNLOAD_FILAMENT_IN_EXTRUDER ==
    Step("retry_unload_filament_in_extruder", None,
         retry_unload_filament_in_extruder(Fresh(mmu)))
UNLOAD_FILAMENT_IN_EXTRUDER ==
    Step("unload_filament_in_extruder", None,
         unload_filament_in_extruder(Fresh(mmu)))
EJECT_RAMMING == Step("eject_ramming", None, eject_ramming(Fresh(mmu)))
UNLOAD_FILAMENT_IN_EXTRUDER_WITH_RAMMING ==
    Step("unload_filament_in_extruder_with_ramming", None,
         unload_filament_in_extruder_with_ramming(Fresh(mmu)))
LOAD_FILAMENT_TO_FINDA ==
    Step("load_filament_to_finda", None, load_filament_to_finda(Fresh(mmu)))
LOAD_FILAMENT_FROM_FINDA_TO_EXTRUDER ==
    Step("load_filament_from_finda_to_extruder", None,
         load_filament_from_finda_to_extruder(Fresh(mmu)))
LOAD_FILAMENT_TO_EXTRUDER ==
    Step("load_filament_to_extruder", None,
         load_filament_to_extruder(Fresh(mmu)))
UNLOAD_FILAMENT_FROM_FINDA ==
    Step("unload_filament_from_finda", None,
         unload_filament_from_finda(Fresh(mmu)))
UNLOAD_FILAMENT_FROM_EXTRUDER_TO_FINDA ==
    Step("unload_filament_from_extruder_to_finda", None,
         unload_filament_from_extruder_to_finda(Fresh(mmu)))
UNLOAD_FILAMENT_FROM_EXTRUDER ==
    Step("unload_filament_from_extruder", None,
         unload_filament_from_extruder(Fresh(mmu)))
UNLOAD_AFTER_LOAD ==
    Follow("load_filament_to_extruder", "unload_filament_from_extruder",
           unload_filament_from_extruder(Fresh(mmu)))
M702 == Step("cmd_m702", None, cmd_m702(Fresh(mmu)))
EJECT_FROM_EXTRUDER ==
    Step("eject_from_extruder", None, eject_from_extruder(Fresh(mmu)))
EJECT_BEFORE_HOME ==
    Step("eject_before_home", None, eject_before_home(Fresh(mmu)))

Next ==
    \/ Ready \/ SET_FILAMENT_SENSOR
    \/ HOME_IDLER \/ HOME_MMU \/ HOME_MMU_ONLY
    \/ PAUSE_MMU \/ RESUME_MMU \/ UNLOCK_MMU
    \/ Tx \/ Kx \/ LT \/ UT \/ SELECT_TOOL \/ UNSELECT_TOOL
    \/ UNSELECT_AFTER_SELECT \/ UNLOAD_AFTER_LOAD
    \/ LOAD_FILAMENT_TO_FINDA_IN_LOOP
    \/ RETRY_LOAD_FILAMENT_IN_EXTRUDER \/ LOAD_FILAMENT_IN_EXTRUDER
    \/ RETRY_UNLOAD_FILAMENT_IN_EXTRUDER \/ UNLOAD_FILAMENT_IN_EXTRUDER
    \/ EJECT_RAMMING \/ UNLOAD_FILAMENT_IN_EXTRUDER_WITH_RAMMING
    \/ LOAD_FILAMENT_TO_FINDA \/ LOAD_FILAMENT_FROM_FINDA_TO_EXTRUDER
    \/ LOAD_FILAMENT_TO_EXTRUDER
    \/ UNLOAD_FILAMENT_FROM_FINDA \/ UNLOAD_FILAMENT_FROM_EXTRUDER_TO_FINDA
    \/ UNLOAD_FILAMENT_FROM_EXTRUDER
    \/ M702 \/ EJECT_FROM_EXTRUDER \/ EJECT_BEFORE_HOME

Spec == Init /\ [][Next]_vars

\* ------------------------------------------- the validation helpers alone
\* The four helpers have no command of their own: the operations call them
\* unpaused, with any tool and filament.  Here each is called once on every
\* such object.
HelperStates ==
    { [NewMachine(n) EXCEPT !.is_homed = h, !.current_tool = t,
                            !.current_filament = f]
        : n \in BOOLEAN, h \in BOOLEAN,
          t \in ToolIds \cup {None}, f \in ToolIds \cup {None} }

InitHelpers ==
    /\ mmu \in HelperStates
    /\ cmd = "idle"
    /\ arg = None
    /\ pre = Fields(mmu)
    /\ prev = NoPrev

VALIDATE_FILAMENT_IN_EXTRUDER ==
    Step("validate_filament_in_extruder", None,
         validate_filament_in_extruder(Fresh(mmu)))
VALIDATE_FILAMENT_NOT_STUCK_IN_EXTRUDER ==
    Step("validate_filament_not_stuck_in_extruder", None,
         validate_filament_not_stuck_in_extruder(Fresh(mmu)))
VALIDATE_FILAMENT_IS_IN_FINDA ==
    Step("validate_filament_is_in_finda", None,
         validate_filament_is_in_finda(Fresh(mmu)))
VALIDATE_FILAMENT_NOT_STUCK_IN_FINDA ==
    Step("validate_filament_not_stuck_in_finda", None,
         validate_filament_not_stuck_in_finda(Fresh(mmu)))

NextHelpers ==
    \/ VALIDATE_FILAMENT_IN_EXTRUDER
    \/ VALIDATE_FILAMENT_NOT_STUCK_IN_EXTRUDER
    \/ VALIDATE_FILAMENT_IS_IN_FINDA
    \/ VALIDATE_FILAMENT_NOT_STUCK_IN_FINDA

SpecHelpers == InitHelpers /\ [][NextHelpers]_vars

\* ================================================================= claims
Moves(m) == m.idler_moves + m.selector_moves + m.pulley_moves + m.extruder_moves

Calls(m) ==
    Moves(m) + m.idler_aux + m.selector_aux + m.pulley_aux

EntryPoints ==
    { "select_tool", "unselect_tool", "load_filament_to_finda",
      "load_filament_to_finda_in_loop", "load_filament_from_finda_to_extruder",
      "load_filament_to_extruder", "load_filament_in_extruder",
      "retry_load_filament_in_extruder", "load_tool",
      "unload_filament_in_extruder", "retry_unload_filament_in_extruder",
      "unload_filament_from_finda", "unload_filament_from_extruder_to_finda",
      "unload_filament_from_extruder", "unload_tool" }

\* C1: select_tool, unselect_tool and every load/unload entry point, called
\* while is_paused is true, returns failure and issues no idler, selector,
\* pulley or extruder motion call, whatever the sensors read.
C1_PausedRefusal ==
    (cmd \in EntryPoints /\ pre.is_paused)
        => (~mmu.ret /\ ~mmu.exc /\ Moves(mmu) = 0)

C3_HomedOnlyAfterHoming ==
    /\ (mmu.is_homed /\ ~pre.is_homed)
          => (cmd \in {"home_mmu", "home_mmu_only"} /\ mmu.ret)
    /\ (cmd = "home_mmu" /\ ~mmu.ret /\ ~pre.is_homed) => ~mmu.is_homed

\* C4: once is_paused is true it stays true through every command but unlock;
\* resume leaves is_paused as it was.
C4_PausedUntilUnlock ==
    /\ (pre.is_paused /\ cmd # "unlock") => mmu.is_paused
    /\ cmd = "resume" => mmu.is_paused = pre.is_paused

C4_Witness ==
    /\ cmd = "resume" /\ pre.is_paused /\ mmu.is_paused

\* C5: while is_paused is true no command other than unlock and resume changes
\* current_tool or current_filament.
C5_PausedFrame ==
    (pre.is_paused /\ cmd \notin {"unlock", "resume"}) =>
        /\ mmu.current_tool = pre.current_tool
        /\ mmu.current_filament = pre.current_filament

\* C6: in a homed, unpaused state select_tool(id) with a valid id succeeds, and
\* the unselect_tool() that follows it succeeds, ends with current_tool None
\* and with current_filament as it was before the two calls.
C6_SelectUnselect ==
    /\ (cmd = "select_tool" /\ pre.is_homed /\ ~pre.is_paused
            /\ arg \in ToolIds)
          => /\ mmu.ret /\ ~mmu.exc
             /\ mmu.current_tool = arg
             /\ mmu.current_filament = pre.current_filament
    /\ (cmd = "unselect_tool" /\ prev.cmd = "select_tool")
          => /\ mmu.ret /\ ~mmu.exc
             /\ mmu.current_tool = None
             /\ mmu.current_filament = prev.filament

C6_Witness ==
    /\ cmd = "unselect_tool" /\ prev.cmd = "select_tool"
    /\ pre.current_tool \in ToolIds /\ prev.filament \in ToolIds
    /\ mmu.ret /\ mmu.current_tool = None

\* C7: select_tool(id) with id outside [0, number_of_tools) returns failure as
\* a value, moves neither idler nor selector and leaves current_tool alone.
C7_InvalidIdRefused ==
    (cmd = "select_tool" /\ arg \notin ToolIds) =>
        /\ ~mmu.ret /\ ~mmu.exc
        /\ mmu.idler_moves = 0 /\ mmu.selector_moves = 0
        /\ mmu.current_tool = pre.current_tool

C9_CutEndsHomed ==
    (cmd = "cut_filament" /\ mmu.ret /\ ~mmu.exc)
        => (mmu.is_homed /\ mmu.current_tool = None)

\* C10: T<n> called when current_filament is n makes no actuator call, leaves
\* the runout and motion sensors' enabled flags alone and leaves every field of
\* the object as it was (so that a second call starts from the same state).
C10_SameToolNoOp ==
    (cmd = "cmd_tx" /\ pre.current_filament = arg) =>
        /\ Calls(mmu) = 0
        /\ mmu.heat = 0 /\ mmu.ramming = 0 /\ mmu.tmc = 0 /\ mmu.pauses = 0
        /\ mmu.finda = "unread" /\ mmu.ext = "unread"
        /\ ~mmu.exc
        /\ Fields(mmu) = pre

C10_Witness ==
    /\ cmd = "cmd_tx" /\ arg \in ToolIds /\ pre.current_filament = arg
    /\ pre.switch_enabled /\ pre.motion_enabled /\ ~pre.is_paused
    /\ Calls(mmu) = 0

\* C11: on every exit of cmd_tx (the early return, a failed unload_tool, a
\* failed load_tool, success, with or without a pause) the enabled flags of the
\* runout switch sensor and of the motion sensor are what they were before.
C11_FlagsRestored ==
    cmd = "cmd_tx" =>
        /\ ~mmu.exc
        /\ mmu.switch_enabled = pre.switch_enabled
        /\ mmu.motion_enabled = pre.motion_enabled

C11_Witness ==
    /\ cmd = "cmd_tx" /\ pre.current_filament # arg
    /\ pre.switch_enabled /\ pre.motion_enabled
    /\ pre.current_filament # None
    /\ mmu.pauses = 1 /\ mmu.current_filament = None /\ mmu.pulley_moves > 0
    /\ mmu.switch_enabled /\ mmu.motion_enabled

\* C12: load_filament_to_finda() called unpaused with current_tool None returns
\* False at once: no pulley call (no actuator call at all), no sensor read, no
\* pause(), and is_paused, current_filament and every other field are left as
\* they were.
C12_NoToolRefused ==
    (cmd = "load_filament_to_finda" /\ ~pre.is_paused
        /\ pre.current_tool = None)
        => /\ ~mmu.ret /\ ~mmu.exc
           /\ mmu.pulley_moves = 0 /\ Calls(mmu) = 0
           /\ mmu.pauses = 0 /\ mmu.finda = "unread"
           /\ Fields(mmu) = pre

C12_Witness ==
    /\ cmd = "load_filament_to_finda" /\ ~pre.is_paused /\ pre.is_homed
    /\ pre.current_tool = None /\ pre.current_filament \in ToolIds
    /\ ~mmu.ret /\ mmu.pulley_moves = 0

\* The command's first reading of the hotend was below min_temp_extruder.
ColdHotend == mmu.first_temp # None /\ mmu.first_temp < MinTempExtruder

\* C13: load_filament_in_extruder() called with the hotend below
\* min_temp_extruder returns False, calls pause() (is_paused becomes true) and
\* issues no pulley and no extruder motion.
C13_ColdLoadPauses ==
    (cmd = "load_filament_in_extruder" /\ ColdHotend)
        => /\ ~mmu.ret /\ ~mmu.exc
           /\ mmu.pauses = 1 /\ mmu.is_paused /\ ~pre.is_paused
           /\ mmu.pulley_moves = 0 /\ mmu.extruder_moves = 0

C13_Witness ==
    /\ cmd = "load_filament_in_extruder" /\ ColdHotend
    /\ pre.is_homed /\ pre.current_tool \in ToolIds
    /\ mmu.is_paused /\ mmu.pauses = 1 /\ ~mmu.ret

ThermalOps ==
    { "load_filament_in_extruder", "unload_filament_in_extruder",
      "unload_filament_in_extruder_with_ramming" }

ThermalRetries ==
    { "retry_load_filament_in_extruder", "retry_unload_filament_in_extruder" }

\* C14 as stated: every operation that moves filament through the extruder,
\* called with the hotend below min_temp_extruder, returns failure without
\* moving filament and without setting is_paused.
C14_ThermalGuardSilent ==
    (cmd \in ThermalOps \cup ThermalRetries /\ ColdHotend)
        => /\ ~mmu.ret /\ Moves(mmu) = 0
           /\ mmu.is_paused = pre.is_paused

\* C14 as amended: with the hotend below min_temp_extruder,
\* load_filament_in_extruder, unload_filament_in_extruder and
\* unload_filament_in_extruder_with_ramming return failure without moving
\* filament after one pause() (is_paused true); the retry_load / retry_unload
\* corrections return failure without moving filament and without pause().
C14_ThermalGuard ==
    /\ (cmd \in ThermalOps /\ ColdHotend)
          => /\ ~mmu.ret /\ ~mmu.exc /\ Moves(mmu) = 0 /\ mmu.ramming = 0
             /\ mmu.pauses = 1 /\ mmu.is_paused
    /\ (cmd \in ThermalRetries /\ ColdHotend)
          => /\ ~mmu.ret /\ ~mmu.exc /\ Moves(mmu) = 0
             /\ mmu.pauses = 0 /\ mmu.is_paused = pre.is_paused

C14_Witness ==
    /\ cmd = "retry_unload_filament_in_extruder" /\ ColdHotend
    /\ mmu.ext = "present" /\ ~mmu.ret /\ ~mmu.is_paused

\* C15: with no_selector_mode enabled a run of home_mmu_only() makes no call of
\* any kind to the selector actuator (set-position, move, homing move,
\* enable/disable, dwell), while the idler is homed and the gear self-test
\* (select tool 0, unselect) is performed.
C15_NoSelectorCalls ==
    (cmd = "home_mmu_only" /\ mmu.enable_no_selector_mode /\ ~pre.is_paused)
        => /\ mmu.selector_moves = 0 /\ mmu.selector_aux = 0
           /\ mmu.idler_moves >= 3 + 2

Helpers ==
    { "validate_filament_in_extruder", "validate_filament_not_stuck_in_extruder",
      "validate_filament_is_in_finda", "validate_filament_not_stuck_in_finda" }

\* The helper's reading contradicts what it expects.
Mismatch ==
    \/ cmd = "validate_filament_in_extruder" /\ mmu.ext # "present"
    \/ cmd = "validate_filament_not_stuck_in_extruder" /\ mmu.ext = "present"
    \/ cmd = "validate_filament_is_in_finda" /\ mmu.finda # "present"
    \/ cmd = "validate_filament_not_stuck_in_finda" /\ mmu.finda = "present"

\* C16: each of the four validation helpers returns False after one pause()
\* exactly when its sensor reading contradicts the expectation; when the
\* reading matches it returns True, calls no pause() and leaves is_paused,
\* current_tool and current_filament as they were.
C16_Helpers ==
    cmd \in Helpers =>
        /\ ~mmu.exc /\ Calls(mmu) = 0
        /\ (mmu.ext = "unread") # (mmu.finda = "unread")
        /\ Mismatch => (~mmu.ret /\ mmu.pauses = 1 /\ mmu.is_paused)
        /\ ~Mismatch =>
              /\ mmu.ret /\ mmu.pauses = 0
              /\ mmu.is_paused = pre.is_paused
        /\ mmu.current_tool = pre.current_tool
        /\ mmu.current_filament = pre.current_filament

C16_Witness ==
    /\ cmd = "validate_filament_is_in_finda" /\ mmu.finda = "absent"
    /\ pre.current_tool \in ToolIds /\ ~pre.is_paused
    /\ ~mmu.ret /\ mmu.is_paused /\ mmu.pauses = 1

\* C17 as stated: in a load or unload operation is_paused turns from false to
\* true only by a pause() of a sensor validation helper or of an exhausted
\* sensor-zone loop.
C17_PausedBySensorOnly ==
    (cmd \in EntryPoints /\ ~pre.is_paused /\ mmu.is_paused)
        => (mmu.paused_by # {} /\ mmu.paused_by \subseteq {"sensor", "loop"})

\* C17 as amended: in a load or unload operation is_paused turns from false to
\* true only by a pause() of a sensor validation helper, of an exhausted
\* sensor-zone loop, or of the hotend validation (a first reading below
\* min_temp_extruder); an operation that calls no pause() leaves is_paused as
\* it was.
C17_PausedByValidation ==
    cmd \in EntryPoints =>
        /\ mmu.is_paused = (pre.is_paused \/ mmu.pauses > 0)
        /\ (mmu.paused_by = {}) = (mmu.pauses = 0)
        /\ mmu.paused_by \subseteq {"sensor", "loop", "hotend"}
        /\ "hotend" \in mmu.paused_by => ColdHotend

C17_Witness ==
    /\ cmd = "load_tool" /\ ~pre.is_paused /\ mmu.is_paused
    /\ mmu.paused_by = {"hotend"} /\ mmu.pulley_moves > 0

\* The stages of load_filament_to_extruder and of load_tool, in the order of
\* the source; no_selector_mode has no sensor-zone stage.
TransportStages ==
    IF mmu.enable_no_selector_mode
    THEN <<"load_filament_from_finda_to_extruder">>
    ELSE <<"load_filament_to_finda", "load_filament_from_finda_to_extruder">>

LoadToolStages ==
    <<"select_tool">> \o TransportStages \o <<"load_filament_in_extruder">>

\* The stages called are the first ones of the list, in its order; every one
\* but the last called returned True; the composite returned True exactly when
\* all were called and the last returned True.
ShortCircuit(stages) ==
    LET n == Len(mmu.log)
    IN  /\ n <= Len(stages)
        /\ \A i \in 1 .. n :
              /\ mmu.log[i][1] = stages[i]
              /\ i < n => mmu.log[i][2]
        /\ mmu.ret = (n = Len(stages) /\ mmu.log[n][2])

\* C18: load_tool(id) and load_filament_to_extruder() run their stages (select
\* tool, load to sensor zone, sensor-zone-to-extruder transport, extruder
\* insertion) strictly in order and stop at the first stage that returns
\* False: no later stage is called (so it issues no motion) and the composite
\* returns False.
C18_StagesInOrder ==
    /\ cmd = "load_tool" =>
          /\ ShortCircuit(LoadToolStages)
          /\ Len(mmu.log) = 0 => Moves(mmu) = 0
          /\ Len(mmu.log) < Len(LoadToolStages) => mmu.extruder_moves = 0
    /\ cmd = "load_filament_to_extruder" =>
          /\ ShortCircuit(TransportStages)
          /\ mmu.extruder_moves = 0
          /\ (Len(mmu.log) = 1 /\ ~mmu.enable_no_selector_mode)
                => mmu.pulley_moves <= FindaLoadRetry

C18_Witness ==
    /\ cmd = "load_tool" /\ ~mmu.enable_no_selector_mode
    /\ Len(mmu.log) = 2 /\ ~mmu.log[2][2]
    /\ ~mmu.ret /\ mmu.extruder_moves = 0 /\ mmu.idler_moves > 0

\* C19: in selector mode unload_tool() returns True only with the sensor zone
\* read empty, so that the load_tool of a tool change starts with no other
\* lane's filament detected in the shared path.
C19_PathClearAfterUnload ==
    (cmd = "unload_tool" /\ ~mmu.enable_no_selector_mode /\ mmu.ret)
        => mmu.finda = "absent"

\* C20: after every operation, on every exit, current_tool and
\* current_filament do not name different lanes: when neither is None they
\* are equal.
C20_NoConflictingLanes ==
    (cmd # "idle" /\ mmu.current_tool # None /\ mmu.current_filament # None)
        => mmu.current_tool = mmu.current_filament

UnloadOps ==
    { "unload_filament_from_finda", "unload_filament_from_extruder",
      "unload_filament_from_extruder_to_finda", "unload_filament_in_extruder",
      "unload_tool" }

\* C21: during an unload current_filament becomes None only when the
\* operation succeeded, in selector mode with the sensor zone read empty by
\* the last check; in no_selector_mode a successful
\* unload_filament_from_extruder() / unload_tool() ends with current_filament
\* None; a failed unload leaves current_filament as it was.
C21_FilamentClearedOnSuccess ==
    cmd \in UnloadOps =>
        /\ (pre.current_filament # None /\ mmu.current_filament = None)
              => /\ mmu.ret
                 /\ ~mmu.enable_no_selector_mode => mmu.finda = "absent"
        /\ (mmu.enable_no_selector_mode /\ mmu.ret
                /\ pre.current_filament # None
                /\ cmd \in {"unload_filament_from_extruder", "unload_tool"})
              => mmu.current_filament = None
        /\ ~mmu.ret => mmu.current_filament = pre.current_filament

\* C22: unlock() sets is_paused to false and runs the idler homing sequence
\* only (two set-positions, three moves, one disable): no selector, pulley or
\* extruder call, no sensor read, and is_homed, current_tool and
\* current_filament are left as they were.
C22_UnlockFrame ==
    cmd = "unlock" =>
        /\ ~mmu.is_paused /\ ~mmu.exc
        /\ mmu.idler_moves = 3 /\ mmu.idler_aux = 2 + 3
        /\ mmu.selector_moves = 0 /\ mmu.selector_aux = 0
        /\ mmu.pulley_moves = 0 /\ mmu.pulley_aux = 0
        /\ mmu.extruder_moves = 0 /\ mmu.heat = 0 /\ mmu.tmc = 0
        /\ mmu.finda = "unread" /\ mmu.ext = "unread" /\ mmu.pauses = 0
        /\ mmu.is_homed = pre.is_homed
        /\ mmu.current_tool = pre.current_tool
        /\ mmu.current_filament = pre.current_filament

C22_Witness ==
    /\ cmd = "unlock" /\ pre.is_paused /\ pre.is_homed
    /\ pre.current_tool \in ToolIds /\ pre.current_filament \in ToolIds
    /\ ~mmu.is_paused /\ mmu.idler_moves = 3

\* C23: cut_filament(id) called while paused or in no_selector_mode returns
\* False at once: no actuator call, no change of the stall threshold or the
\* current, no sensor read, and is_homed, current_tool, current_filament and
\* every other field are left as they were.
C23_CutRefused ==
    (cmd = "cut_filament" /\ (pre.is_paused \/ mmu.enable_no_selector_mode))
        => /\ ~mmu.ret /\ ~mmu.exc
           /\ Calls(mmu) = 0 /\ mmu.tmc = 0 /\ mmu.heat = 0
           /\ mmu.finda = "unread" /\ mmu.ext = "unread" /\ mmu.pauses = 0
           /\ mmu.log = <<>>
           /\ Fields(mmu) = pre

C23_Witness ==
    /\ cmd = "cut_filament" /\ mmu.enable_no_selector_mode
    /\ ~pre.is_paused /\ pre.is_homed /\ pre.current_filament \in ToolIds
    /\ ~mmu.ret /\ Calls(mmu) = 0

CutSteps ==
    <<"unload_tool", "select_tool", "load_filament_to_finda",
      "unload_filament_from_finda", "cut", "home_mmu">>

\* C30: in cut_filament(id), when one of the four preparatory steps (unload
\* the current tool, select id, load to the sensor zone, unload from the
\* sensor zone) fails, cut_filament returns False and runs no later step: no
\* later preparatory step, no blade positioning, push, stall threshold or
\* current change, cutting move, and no homing.
C30_CutAborts ==
    cmd = "cut_filament" =>
        LET n == Len(mmu.log)
        IN  /\ n <= Len(CutSteps)
            /\ \A i \in 1 .. n :
                  /\ mmu.log[i][1] = CutSteps[i]
                  /\ (i < n /\ i <= 4) => mmu.log[i][2]
            /\ (n <= 4 /\ ~mmu.exc) => (~mmu.ret /\ mmu.tmc = 0)
            /\ (n >= 1 /\ n <= 4) => ~mmu.log[n][2]
            /\ n >= 5 => (n = 6 /\ mmu.tmc = 2)

C30_Witness ==
    /\ cmd = "cut_filament" /\ Len(mmu.log) = 3 /\ ~mmu.log[3][2]
    /\ ~mmu.ret /\ mmu.is_paused /\ mmu.tmc = 0
    /\ mmu.selector_moves = 1

\* C24: HOME_MMU called while is_paused is true refuses: it returns False,
\* makes no actuator call, and leaves is_homed, current_tool,
\* current_filament and the runout sensor's enabled flag as they were.
C24_HomeRefusedWhenPaused ==
    (cmd = "home_mmu" /\ pre.is_paused)
        => /\ ~mmu.ret /\ ~mmu.exc /\ Calls(mmu) = 0
           /\ mmu.is_homed = pre.is_homed
           /\ mmu.current_tool = pre.current_tool
           /\ mmu.current_filament = pre.current_filament
           /\ mmu.switch_enabled = pre.switch_enabled

\* C25: every run of home_mmu_only() that returns True has performed the gear
\* self-test: after the three moves of the idler homing the idler was moved
\* to tool 0 (select_tool(0) succeeded) and back to the park position
\* (unselect_tool() succeeded), also when is_homed was false before.
C25_SelfTestPerformed ==
    (cmd = "home_mmu_only" /\ mmu.ret) => mmu.idler_moves = 3 + 2

IdlerHoming ==
    << <<"idler", "set_position", 0>>, <<"idler", "move", 7>>,
       <<"idler", "move", -95>>, <<"idler", "set_position", 2>>,
       <<"idler", "move", IdlerHomePosition>>, <<"idler", "disable", 0>> >>

SelectorHoming ==
    << <<"selector", "set_position", 0>>, <<"selector", "homing_move", -76>>,
       <<"selector", "set_position", 0>>, <<"selector", "disable", 0>> >>

\* C26: a home_mmu_only() that returns True has run the idler homing (zero,
\* +7, -95, re-zero at 2, move to idler_home_position, disable) before any
\* selector homing call, and ends with is_homed true and with current_tool and
\* current_filament None, whatever they were before.
C26_HomingOrder ==
    (cmd = "home_mmu_only" /\ mmu.ret) =>
        /\ mmu.homing = IF mmu.enable_no_selector_mode
                        THEN IdlerHoming
                        ELSE IdlerHoming \o SelectorHoming
        /\ mmu.is_homed
        /\ mmu.current_tool = None /\ mmu.current_filament = None

C26_Witness ==
    /\ cmd = "home_mmu_only" /\ mmu.ret /\ ~mmu.enable_no_selector_mode
    /\ pre.current_tool \in ToolIds /\ pre.current_filament \in ToolIds
    /\ Len(mmu.homing) = 10 /\ mmu.current_filament = None

\* The parts of C27 that do not depend on how long the loop goes on: a run of
\* load_filament_in_extruder() makes the 20mm push and at most load_retry
\* correction pushes, pauses only from a validation helper (never from the
\* loop), returns True only if the last reading of the extruder sensor was
\* presence, and after the first push returns False exactly with one pause of
\* the final validation.
C27_BoundedLoop ==
    cmd = "load_filament_in_extruder" =>
        /\ mmu.pulley_moves <= 1 + LoadRetry
        /\ mmu.paused_by \subseteq {"sensor", "hotend"}
        /\ mmu.pauses <= 1
        /\ mmu.ret => (mmu.ext = "present" /\ mmu.pauses = 0)
        /\ (~mmu.ret /\ mmu.pulley_moves >= 1) =>
               (mmu.ext # "present" /\ mmu.paused_by = {"sensor"})

\* C27 as stated: in load_filament_in_extruder() the correction loop makes at
\* most load_retry 10mm pushes, makes none once the extruder sensor has
\* reported presence, and does not pause; the operation fails if presence is
\* unconfirmed after the loop and succeeds only if the final check read
\* presence.
C27_NoPushOncePresent ==
    /\ C27_BoundedLoop
    /\ cmd = "load_filament_in_extruder" => ~mmu.late_correction

\* C27 amended: the loop always makes its load_retry calls of
\* retry_load_filament_in_extruder(), and a call pushes only if its own
\* reading of the extruder sensor is absence (a call that reads presence
\* moves nothing); the bound on the pushes, the absence of a pause in the
\* loop and the results are as stated.
C27_PushOnlyOnAbsence ==
    /\ C27_BoundedLoop
    /\ (cmd = "retry_load_filament_in_extruder" /\ mmu.ext = "present") =>
           (mmu.ret /\ mmu.pulley_moves = 0 /\ mmu.extruder_moves = 0)
    /\ cmd = "retry_load_filament_in_extruder" =>
           (mmu.pulley_moves <= 1 /\ mmu.pauses = 0)

C27_Witness ==
    /\ cmd = "load_filament_in_extruder"
    /\ mmu.pulley_moves = 1 + LoadRetry
    /\ ~mmu.ret /\ mmu.pauses = 1

\* The parts of C28 that do not depend on how long the loop goes on: a run of
\* unload_filament_in_extruder() runs the retraction script and at most
\* unload_retry corrective retractions, returns True only if the last reading
\* of the extruder sensor was absence and nothing paused, and returns False
\* only with the MMU paused; after the first retraction a False comes with one
\* pause of the final validation and a last reading of presence.
C28_BoundedLoop ==
    cmd = "unload_filament_in_extruder" =>
        /\ mmu.extruder_moves <= 1 + UnloadRetry
        /\ mmu.pulley_moves = 0
        /\ mmu.ret => (mmu.ext # "present" /\ mmu.pauses = 0)
        /\ ~mmu.ret => mmu.is_paused
        /\ (~mmu.ret /\ mmu.extruder_moves >= 1) =>
               /\ mmu.ext = "present"
               /\ mmu.pauses = 1 /\ mmu.paused_by = {"sensor"}

\* C28 as stated: in unload_filament_in_extruder() the correction loop runs at
\* most unload_retry corrective retraction scripts and none once the extruder
\* sensor has reported absence; the operation succeeds only if the final check
\* read absence, and otherwise pauses and fails.
C28_NoRetractionOnceAbsent ==
    /\ C28_BoundedLoop
    /\ cmd = "unload_filament_in_extruder" => ~mmu.late_correction

\* C28 amended: the loop always makes its unload_retry calls of
\* retry_unload_filament_in_extruder(), and a call retracts only if its own
\* reading of the extruder sensor is presence (a call that reads absence moves
\* nothing); the bound on the retractions and the results are as stated.
C28_RetractOnlyOnPresence ==
    /\ C28_BoundedLoop
    /\ (cmd = "retry_unload_filament_in_extruder" /\ mmu.ext # "present") =>
           (mmu.ret /\ mmu.extruder_moves = 0)
    /\ cmd = "retry_unload_filament_in_extruder" =>
           (mmu.extruder_moves <= 1 /\ mmu.pauses = 0)

C28_Witness ==
    /\ cmd = "unload_filament_in_extruder"
    /\ mmu.extruder_moves = 1 + UnloadRetry
    /\ mmu.ret /\ mmu.ext # "present"

\* C29: in selector mode a run of unload_filament_from_extruder_to_finda()
\* that gets past its refusals makes one primary reverse homing move and then
\* one reverse move of the loop for every presence reading before the first
\* absence reading, at most finda_unload_retry of them; when the loop is
\* exhausted pause() is called once, by the loop, and the result is False;
\* the result is True only if the last reading of the sensor was absence.
C29_UnloadToFinda ==
    (cmd = "unload_filament_from_extruder_to_finda"
        /\ ~mmu.enable_no_selector_mode) =>
        /\ mmu.pulley_moves <= 1 + FindaUnloadRetry
        /\ mmu.ret =>
               /\ mmu.finda = "absent" /\ mmu.pauses = 0
               /\ mmu.pulley_moves >= 1
               /\ mmu.finda_hits = mmu.pulley_moves - 1
        /\ (~mmu.ret /\ mmu.pulley_moves >= 1) =>
               /\ mmu.finda = "present" /\ mmu.pauses = 1
               /\ mmu.finda_hits = mmu.pulley_moves
               /\ mmu.paused_by \in {{"loop"}, {"sensor"}}
        /\ "loop" \in mmu.paused_by =>
               /\ ~mmu.ret /\ mmu.pauses = 1
               /\ mmu.pulley_moves = 1 + FindaUnloadRetry
        /\ (~mmu.ret /\ mmu.pulley_moves = 0) =>
               (mmu.pauses = 0 /\ mmu.finda_hits = 0)

C29_Witness ==
    /\ cmd = "unload_filament_from_extruder_to_finda"
    /\ ~mmu.enable_no_selector_mode
    /\ "loop" \in mmu.paused_by
    /\ mmu.pulley_moves = 1 + FindaUnloadRetry

\* C31: a T<n> command that finds current_filament different from n calls
\* unload_tool() first and load_tool(n) only after it: the first step run is
\* unload_tool, and when it returned False nothing of load_tool(n) is run (no
\* select_tool(n), no loading stage), so the command ends with the result
\* False of the unload; a select_tool of load_tool is the second step, after
\* an unload_tool that returned True.
C31_UnloadBeforeLoad ==
    (cmd = "cmd_tx" /\ pre.current_filament # arg /\ ~mmu.exc) =>
        /\ Len(mmu.log) >= 1
        /\ mmu.log[1][1] = "unload_tool"
        /\ \A i \in 2 .. Len(mmu.log) :
              /\ mmu.log[i][1] # "unload_tool"
              /\ mmu.log[1][2]
        /\ ~mmu.log[1][2] =>
              /\ Len(mmu.log) = 1 /\ ~mmu.ret
              /\ mmu.current_filament = pre.current_filament
        /\ (mmu.log[1][2] /\ ~pre.is_paused /\ ~mmu.is_paused) =>
              (Len(mmu.log) >= 2 /\ mmu.log[2][1] = "select_tool")

C31_Witness ==
    /\ cmd = "cmd_tx" /\ pre.current_filament # arg
    /\ mmu.log = << <<"unload_tool", FALSE>> >>
    /\ ~mmu.is_paused

\* C32: eject_from_extruder() on an MMU that is not paused returns True with
\* no heater command and no motion when the extruder sensor reads absence;
\* otherwise it commands M109 with the larger of the temperature read and
\* extruder_eject_temp, then the ramming, then the unload from the extruder
\* (there is no ramming without the M109 before it and no retraction without
\* the ramming before it), and when the unload with ramming fails it returns
\* False with nothing after it: the M109 is the only heater command and its
\* target stands.  On success the M104 S0 has followed.
C32_EjectFromExtruder ==
    (cmd = "eject_from_extruder" /\ ~pre.is_paused) =>
        /\ mmu.heat = 0 =>
              /\ mmu.ret /\ mmu.ext = "absent" /\ mmu.heater_target = None
              /\ Moves(mmu) = 0 /\ mmu.ramming = 0 /\ mmu.pauses = 0
        /\ mmu.heat = 1 =>
              /\ mmu.heater_target \in
                    {max(t, ExtruderEjectTemp) : t \in Temps}
              /\ mmu.heater_target >= ExtruderEjectTemp
        /\ mmu.ramming <= 1
        /\ mmu.ramming = 1 => mmu.heat >= 1
        /\ mmu.extruder_moves >= 1 => mmu.ramming = 1
        /\ (mmu.ret /\ mmu.heat >= 1) =>
              /\ mmu.heat = 2 /\ mmu.heater_target = 0
              /\ mmu.ramming = 1 /\ mmu.ext = "absent"
        /\ ~mmu.ret => (mmu.heat = 1 /\ mmu.is_paused /\ mmu.pauses = 1)

C32_Witness ==
    /\ cmd = "eject_from_extruder" /\ ~pre.is_paused
    /\ ~mmu.ret /\ mmu.heat = 1 /\ mmu.heater_target = ExtruderEjectTemp
    /\ mmu.ramming = 1 /\ mmu.extruder_moves >= 1

\* C33: in selector mode an eject_before_home() that returns True has read
\* absence at its last reading of the extruder sensor and at its last reading
\* of the sensor-zone sensor; a run whose last reading of either sensor is
\* presence returns False.
C33_EmptyPathBeforeHome ==
    (cmd = "eject_before_home" /\ ~mmu.enable_no_selector_mode) =>
        /\ mmu.ret => (mmu.ext = "absent" /\ mmu.finda = "absent")
        /\ (mmu.ext = "present" \/ mmu.finda = "present") => ~mmu.ret
        /\ mmu.ret => mmu.pauses = 0

C33_Witness ==
    /\ cmd = "eject_before_home" /\ ~mmu.enable_no_selector_mode
    /\ mmu.ret /\ mmu.heat = 2 /\ mmu.ramming = 1
    /\ mmu.extruder_moves >= 1 /\ mmu.pulley_moves >= 2

\* C34: unload_tool() on an MMU that is not paused and has current_filament
\* None makes no actuator call and does not pause; when the sensor zone reads
\* absence it returns True with the state unchanged; when it reads presence
\* and current_tool is set it sets current_filament to current_tool and
\* returns True; when it reads presence and current_tool is None it returns
\* False with the state unchanged.
C34_UnloadToolHeuristic ==
    (cmd = "unload_tool" /\ ~pre.is_paused /\ pre.current_filament = None) =>
        /\ Calls(mmu) = 0 /\ mmu.pauses = 0
        /\ mmu.heat = 0 /\ mmu.ramming = 0 /\ mmu.tmc = 0
        /\ mmu.finda \in {"absent", "present"}
        /\ mmu.finda = "absent" => (mmu.ret /\ Fields(mmu) = pre)
        /\ (mmu.finda = "present" /\ pre.current_tool # None) =>
              /\ mmu.ret
              /\ Fields(mmu) =
                    [pre EXCEPT !.current_filament = pre.current_tool]
        /\ (mmu.finda = "present" /\ pre.current_tool = None) =>
              (~mmu.ret /\ Fields(mmu) = pre)

C34_Witness ==
    /\ cmd = "unload_tool" /\ ~pre.is_paused /\ pre.current_filament = None
    /\ mmu.finda = "present" /\ pre.current_tool # None
    /\ mmu.current_filament = pre.current_tool

\* The actuator calls of the longest command: 2 for an iteration of the
\* sensor-zone load loop, 4 for the iterations of the two sensor-zone unload
\* loops a command can run, 17 for a call of retry_load_filament_in_extruder
\* (select_tool, the 10mm push, two extruder scripts, unselect_tool), 2 for
\* the iterations of the two extruder unload loops, and 53 calls outside the
\* loops.
MaxCalls ==
    53 + 2 * FindaLoadRetry + 4 * FindaUnloadRetry + 17 * LoadRetry
       + 2 * UnloadRetry

C36_LoadedLaneRecorded ==
    (cmd = "load_tool" /\ mmu.ret) =>
        (mmu.current_filament = arg /\ mmu.current_tool = None)

\* C36 in selector mode: there load_filament_to_finda() has recorded the lane.
C36_LoadedLaneRecordedWithSelector ==
    (cmd = "load_tool" /\ mmu.ret /\ ~mmu.enable_no_selector_mode) =>
        (mmu.current_filament = arg /\ mmu.current_tool = None)

\* C37: a command calls pause() at most once: after a pause() of the command
\* no validation helper is entered and no sensor-zone loop is exhausted in the
\* same command, so one caller at most has paused.
C37_PauseOncePerCommand ==
    /\ mmu.pauses <= 1
    /\ ~mmu.after_pause
    /\ Cardinality(mmu.paused_by) <= mmu.pauses
    /\ cmd # "pause" => Cardinality(mmu.paused_by) = mmu.pauses

C37_Witness ==
    /\ cmd = "cut_filament" /\ mmu.pauses = 1
    /\ Len(mmu.log) = 6 /\ mmu.paused_by = {"sensor"}

\* C38: after home_mmu() has returned, on whatever path (homing done, the
\* eject before homing failed, home_mmu_only refused), the enabled flag of the
\* runout switch sensor is what it was before the call.
C38_RunoutFlagRestored ==
    cmd = "home_mmu" => mmu.switch_enabled = pre.switch_enabled

\* C38 on the paths that get past the eject: there the flag is restored.
C38_RunoutFlagRestoredAfterEject ==
    (cmd = "home_mmu" /\ Len(mmu.homing) > 0) =>
        mmu.switch_enabled = pre.switch_enabled

\* C39: in every reachable state current_tool and current_filament are None
\* or a tool id in [0, number_of_tools), also after select or load requests
\* with a missing, negative or too large id.
C39_ValidLanes ==
    /\ mmu.current_tool \in ToolIds \cup {None}
    /\ mmu.current_filament \in ToolIds \cup {None}
    /\ (cmd \in {"select_tool", "load_tool"} /\ arg \notin ToolIds) =>
          (~mmu.ret /\ Fields(mmu) = pre /\ Calls(mmu) = 0)

C39_Witness ==
    /\ cmd = "load_tool" /\ arg = NumberOfTools
    /\ pre.is_homed /\ ~pre.is_paused /\ pre.current_tool \in ToolIds
    /\ mmu.exc /\ mmu.current_tool = pre.current_tool

====
